---- MODULE Spec2Model ----
(***************************************************************************)
(* Heart Attack Prediction API: the HeartAttackModel wrapper (app/model.py) *)
(* and the HTTP handlers of app/main.py.                                    *)
(*                                                                          *)
(* Conventions of the model                                                 *)
(*  - a text (column name, textual cell) is a sequence of one-character     *)
(*    strings, so that str.lower() is computed character by character;      *)
(*  - a number is an integer count of quarters (4 is 1.0, 2 is 0.5), which  *)
(*    represents exactly every median of values that are multiples of 0.5;  *)
(*  - a DataFrame is [n |-> row count, cols |-> sequence of columns], a     *)
(*    column is [name, dtype, vals], a cell is [kind, num, str] with kind   *)
(*    "num", "str" or "nan" (a missing value: NaN / None);                  *)
(*  - a call that may raise returns [raised, err, df].                      *)
(***************************************************************************)
EXTENDS Integers, Sequences, FiniteSets, TLC

VARIABLES
    artifact,   \* the file at MODEL_PATH and the object it holds
    model,      \* main.py's module-level `model`: the wrapper, or None (loaded = FALSE)
    calls,      \* how many times the classifier has been invoked
    tempFile,   \* temp_predictions.csv in the working directory
    resp,       \* the response to the latest request
    df,         \* the batch handed to HeartAttackModel
    out,        \* what the latest call on HeartAttackModel returned
    clients     \* each HTTP client of test_client.py: where it is and what it received

vars == <<artifact, model, calls, tempFile, resp, df, out, clients>>

---------------------------------------------------------------------------
(* Texts                                                                   *)

UpperChars == <<"A","B","C","D","E","F","G","H","I","J","K","L","M",
                "N","O","P","Q","R","S","T","U","V","W","X","Y","Z">>

LowerChars == <<"a","b","c","d","e","f","g","h","i","j","k","l","m",
                "n","o","p","q","r","s","t","u","v","w","x","y","z">>

\* the lower-case letter of each upper-case letter
UpperToLower ==
    [c \in {UpperChars[i] : i \in DOMAIN UpperChars} |->
        LowerChars[CHOOSE i \in DOMAIN UpperChars : UpperChars[i] = c]]

LowerChar(c) == IF c \in DOMAIN UpperToLower THEN UpperToLower[c] ELSE c

\* str.lower()
Lower(s) == [i \in DOMAIN s |-> LowerChar(s[i])]

\* Range of a sequence
Range(s) == {s[i] : i \in DOMAIN s}

---------------------------------------------------------------------------
(* Cells and numbers                                                       *)

Num(v) == [kind |-> "num", num |-> v, str |-> <<>>]
Str(s) == [kind |-> "str", num |-> 0, str |-> s]
NaN    == [kind |-> "nan", num |-> 0, str |-> <<>>]

\* the integer k as a number of the model
Whole(k) == 4 * k

IsNull(c) == c.kind = "nan"

IsWhole(v) == v % 4 = 0

Abs(x) == IF x < 0 THEN -x ELSE x

\* numpy's round(): to the nearest integer, a tie to the even one
Round(v) ==
    LET q == v \div 4
        r == v % 4
    IN  IF r < 2 THEN 4 * q
        ELSE IF r > 2 THEN 4 * (q + 1)
        ELSE IF q % 2 = 0 THEN 4 * q ELSE 4 * (q + 1)

\* the k-th smallest of the non-missing values of a column's cells
Kth(vals, k) ==
    LET idx == {i \in DOMAIN vals : ~IsNull(vals[i])}
    IN  CHOOSE v \in {vals[i].num : i \in idx} :
            /\ Cardinality({i \in idx : vals[i].num < v}) < k
            /\ Cardinality({i \in idx : vals[i].num <= v}) >= k

\* Series.median(): the median of the non-missing values, NaN when there is none
Median(vals) ==
    LET cnt == Cardinality({i \in DOMAIN vals : ~IsNull(vals[i])})
    IN  IF cnt = 0 THEN NaN
        ELSE IF cnt % 2 = 1 THEN Num(Kth(vals, (cnt + 1) \div 2))
        ELSE Num((Kth(vals, cnt \div 2) + Kth(vals, cnt \div 2 + 1)) \div 2)

\* Series.fillna(value): a missing cell becomes value (which may itself be NaN)
FillNa(vals, value) == [i \in DOMAIN vals |-> IF IsNull(vals[i]) THEN value ELSE vals[i]]

---------------------------------------------------------------------------
(* Column names of the program                                             *)

s_id       == <<"i","d">>
s_income   == <<"i","n","c","o","m","e">>
s_unnamed0 == <<"u","n","n","a","m","e","d",":","_","0">>
s_gender   == <<"g","e","n","d","e","r">>
s_age      == <<"a","g","e">>

s_diabetes == <<"d","i","a","b","e","t","e","s">>
s_family_history == <<"f","a","m","i","l","y","_","h","i","s","t","o","r","y">>
s_smoking  == <<"s","m","o","k","i","n","g">>
s_obesity  == <<"o","b","e","s","i","t","y">>
s_alcohol_consumption ==
    <<"a","l","c","o","h","o","l","_","c","o","n","s","u","m","p","t","i","o","n">>
s_previous_heart_problems ==
    <<"p","r","e","v","i","o","u","s","_","h","e","a","r","t","_",
      "p","r","o","b","l","e","m","s">>
s_medication_use == <<"m","e","d","i","c","a","t","i","o","n","_","u","s","e">>

drop_cols == <<s_unnamed0, s_id, s_income>>

binary_cols == <<s_diabetes, s_family_history, s_smoking, s_obesity,
                 s_alcohol_consumption, s_previous_heart_problems, s_medication_use>>

s_male   == <<"m","a","l","e">>
s_female == <<"f","e","m","a","l","e">>
s_1_0    == <<"1",".","0">>
s_0_0    == <<"0",".","0">>
s_1      == <<"1">>
s_0      == <<"0">>

\* gender_map.get(s): the mapped integer, NaN for a key the table lacks
gender_map(s) ==
    IF s = s_male THEN Num(Whole(0))
    ELSE IF s = s_female THEN Num(Whole(1))
    ELSE IF s = s_1_0 THEN Num(Whole(0))
    ELSE IF s = s_0_0 THEN Num(Whole(1))
    ELSE IF s = s_1 THEN Num(Whole(0))
    ELSE IF s = s_0 THEN Num(Whole(1))
    ELSE NaN

---------------------------------------------------------------------------
(* DataFrame operations                                                    *)

Ok(d)      == [raised |-> FALSE, err |-> "", df |-> d]
Raise(e)   == [raised |-> TRUE, err |-> e, df |-> [n |-> 0, cols |-> <<>>]]

Names(d) == {d.cols[i].name : i \in DOMAIN d.cols}

\* label in df.columns
HasColumn(d, label) == label \in Names(d)

\* the positions of the columns carrying a label (several when labels repeat)
Positions(d, label) == {i \in DOMAIN d.cols : d.cols[i].name = label}

\* df[label] is a Series only when exactly one column carries the label
IsSeries(d, label) == Cardinality(Positions(d, label)) = 1

Col(d, label) == d.cols[CHOOSE i \in DOMAIN d.cols : d.cols[i].name = label]

\* df[label] = vals, with the dtype of the assigned Series
SetCol(d, label, dtype, vals) ==
    [d EXCEPT !.cols = [i \in DOMAIN d.cols |->
        IF d.cols[i].name = label
        THEN [name |-> label, dtype |-> dtype, vals |-> vals]
        ELSE d.cols[i]]]

IsNumericDtype(t) == t \in {"int64", "float64"}

---------------------------------------------------------------------------
(* HeartAttackModel.preprocess_data                                        *)

\* a normalizer that forgets to fold the case of the column names
LowerColumnsKeepCase(d) == d

\* df_processed.columns = df_processed.columns.str.lower()
LowerColumns(d) ==
    [d EXCEPT !.cols = [i \in DOMAIN d.cols |->
        [d.cols[i] EXCEPT !.name = Lower(d.cols[i].name)]]]

\* DataFrame.drop(columns=labels, errors=...): a label the frame lacks is a KeyError
\* unless errors='ignore'; every column carrying a dropped label goes
Drop(d, labels, errors) ==
    IF errors = "raise" /\ \E l \in labels : ~HasColumn(d, l) THEN Raise("KeyError")
    ELSE Ok([d EXCEPT !.cols = SelectSeq(d.cols, LAMBDA c : c.name \notin labels)])

\* df_processed.drop(columns=[col for col in drop_cols if col in columns], errors='ignore')
DropColumns(d) ==
    Drop(d, {drop_cols[j] : j \in {k \in DOMAIN drop_cols : HasColumn(d, drop_cols[k])}},
         "ignore")

s_nan == <<"n","a","n">>

\* Series.astype(str) on an object column: a text stays, a missing value reads "nan"
\* (the object columns of the model hold texts and missing values only)
AsTypeStr(c) == IF c.kind = "str" THEN c.str ELSE s_nan

\* a gender encoding that looks the value up without folding its case
EncodeGenderCaseSensitive(vals) ==
    FillNa([i \in DOMAIN vals |-> gender_map(AsTypeStr(vals[i]))], Num(Whole(0)))

\* .astype(str).str.lower().map(gender_map).fillna(0).astype(int)
EncodeGender(vals) ==
    FillNa([i \in DOMAIN vals |-> gender_map(Lower(AsTypeStr(vals[i])))], Num(Whole(0)))

\* the gender block; df['gender'] of a repeated label is a DataFrame, which has no .dtype
GenderStep(d) ==
    IF ~HasColumn(d, s_gender) THEN Ok(d)
    ELSE IF ~IsSeries(d, s_gender) THEN Raise("AttributeError")
    ELSE IF Col(d, s_gender).dtype # "object" THEN Ok(d)
    ELSE Ok(SetCol(d, s_gender, "int64", EncodeGender(Col(d, s_gender).vals)))

\* a binary coercion that fills a missing value with 0 instead of the median
CoerceBinaryZeroFill(vals) ==
    [i \in DOMAIN vals |->
        IF IsNull(vals[i]) THEN Num(Whole(0)) ELSE Num(Round(vals[i].num))]

\* .fillna(median).round(); astype(int) then rejects a value that is still missing
CoerceBinary(vals) ==
    LET filled == FillNa(vals, Median(vals))
    IN  [i \in DOMAIN filled |->
            IF IsNull(filled[i]) THEN NaN ELSE Num(Round(filled[i].num))]

\* one turn of the loop over binary_cols
BinaryStep(d, col) ==
    IF ~HasColumn(d, col) THEN Ok(d)
    ELSE IF ~IsSeries(d, col) THEN Raise("AttributeError")
    ELSE IF Col(d, col).dtype # "float64" THEN Ok(d)
    ELSE LET coerced == CoerceBinary(Col(d, col).vals)
         IN  IF \E i \in DOMAIN coerced : IsNull(coerced[i])
             THEN Raise("IntCastingNaNError")
             ELSE Ok(SetCol(d, col, "int64", coerced))

RECURSIVE BinaryLoop(_, _)
BinaryLoop(r, k) ==
    IF r.raised \/ k > Len(binary_cols) THEN r
    ELSE BinaryLoop(BinaryStep(r.df, binary_cols[k]), k + 1)

\* select_dtypes(include=[np.number]).columns, one entry per numeric column
NumericCols(d) ==
    LET numeric == SelectSeq(d.cols, LAMBDA c : IsNumericDtype(c.dtype))
    IN  [i \in DOMAIN numeric |-> numeric[i].name]

\* one turn of the loop over numeric_cols; for a repeated label isnull().any() is a
\* Series, whose truth value is ambiguous
NumericStep(d, col) ==
    IF ~IsSeries(d, col) THEN Raise("ValueError")
    ELSE IF \E i \in DOMAIN Col(d, col).vals : IsNull(Col(d, col).vals[i])
         THEN Ok(SetCol(d, col, Col(d, col).dtype,
                        FillNa(Col(d, col).vals, Median(Col(d, col).vals))))
         ELSE Ok(d)

RECURSIVE NumericLoop(_, _, _)
NumericLoop(r, numeric_cols, k) ==
    IF r.raised \/ k > Len(numeric_cols) THEN r
    ELSE NumericLoop(NumericStep(r.df, numeric_cols[k]), numeric_cols, k + 1)

\* the gender block, reached when nothing has raised
GenderPass(r) == IF r.raised THEN r ELSE GenderStep(r.df)

\* the loop over numeric_cols, reached when nothing has raised
NumericPass(r) == IF r.raised THEN r ELSE NumericLoop(r, NumericCols(r.df), 1)

preprocess_data(d) ==
    NumericPass(BinaryLoop(GenderPass(DropColumns(LowerColumns(d))), 1))

---------------------------------------------------------------------------
(* The model artifact and HeartAttackModel.load_model / get_model_info      *)
(*                                                                          *)
(* An artifact is the file at MODEL_PATH: whether it exists, whether        *)
(* joblib.load deserializes it, and the capabilities of the object it       *)
(* holds.  stages is the set of keys of named_steps.                        *)

NoObject ==
    [exists |-> FALSE, deserializes |-> FALSE, type_name |-> "NoneType",
     has_feature_names_in |-> FALSE, feature_names |-> <<>>,
     has_named_steps |-> FALSE, stages |-> {},
     classifier_has_importances |-> FALSE, preprocessor_has_names_out |-> FALSE,
     has_get_params |-> FALSE, has_predict_proba |-> FALSE, bias |-> 0]

\* model = None
NoModel == [loaded |-> FALSE, obj |-> NoObject, feature_names |-> <<>>]

\* hasattr(self.model.named_steps.get('classifier', {}), 'feature_importances_');
\* an object without named_steps raises AttributeError
ProbeClassifier(a) ==
    IF ~a.has_named_steps THEN [raised |-> TRUE, err |-> "AttributeError", value |-> FALSE]
    ELSE [raised |-> FALSE, err |-> "",
          value |-> "classifier" \in a.stages /\ a.classifier_has_importances]

\* list(self.model.named_steps['preprocessor'].get_feature_names_out())
PreprocessorNames(a) ==
    IF "preprocessor" \notin a.stages
    THEN [raised |-> TRUE, err |-> "KeyError", value |-> <<>>]
    ELSE IF ~a.preprocessor_has_names_out
    THEN [raised |-> TRUE, err |-> "AttributeError", value |-> <<>>]
    ELSE [raised |-> FALSE, err |-> "", value |-> a.feature_names]

Loaded(a, names) ==
    [raised |-> FALSE, err |-> "",
     handle |-> [loaded |-> TRUE, obj |-> a, feature_names |-> names]]

LoadError(e) == [raised |-> TRUE, err |-> e, handle |-> NoModel]

\* HeartAttackModel.__init__ / load_model: the handle, or the exception re-raised
load_model(a) ==
    IF ~a.exists THEN LoadError("FileNotFoundError")
    ELSE IF ~a.deserializes THEN LoadError("UnpicklingError")
    ELSE IF a.has_feature_names_in THEN Loaded(a, a.feature_names)
    ELSE IF ProbeClassifier(a).raised THEN LoadError(ProbeClassifier(a).err)
    ELSE IF ProbeClassifier(a).value
         THEN IF PreprocessorNames(a).raised THEN LoadError(PreprocessorNames(a).err)
              ELSE Loaded(a, PreprocessorNames(a).value)
    ELSE Loaded(a, <<>>)

Count(k) == [unknown |-> FALSE, count |-> k]
Unknown  == [unknown |-> TRUE, count |-> 0]

NoInfo ==
    [model_type |-> "", features_count |-> Unknown, model_loaded |-> FALSE,
     has_pipeline_steps |-> FALSE, pipeline_steps |-> {},
     has_classifier_type |-> FALSE, classifier_type |-> ""]

\* type(self.model.named_steps.get('classifier', self.model)).__name__
ClassifierTypeName(a) ==
    IF ~a.has_named_steps THEN [raised |-> TRUE, err |-> "AttributeError", value |-> ""]
    ELSE [raised |-> FALSE, err |-> "",
          value |-> IF "classifier" \in a.stages THEN "Classifier" ELSE a.type_name]

\* the classifier_type entry, added when the object has get_params
WithClassifierType(a, info, name) ==
    IF ~a.has_get_params THEN [raised |-> FALSE, err |-> "", info |-> info]
    ELSE IF name.raised THEN [raised |-> TRUE, err |-> name.err, info |-> NoInfo]
    ELSE [raised |-> FALSE, err |-> "",
          info |-> [info EXCEPT !.has_classifier_type = TRUE,
                                !.classifier_type = name.value]]

\* HeartAttackModel.get_model_info, on a constructed wrapper
get_model_info(m) ==
    WithClassifierType(m.obj,
        [NoInfo EXCEPT
            !.model_type = m.obj.type_name,
            !.features_count = IF m.feature_names # <<>>
                               THEN Count(Len(m.feature_names)) ELSE Unknown,
            !.model_loaded = TRUE,
            !.has_pipeline_steps = m.obj.has_named_steps,
            !.pipeline_steps = IF m.obj.has_named_steps THEN m.obj.stages ELSE {}],
        ClassifierTypeName(m.obj))

---------------------------------------------------------------------------
(* The classifier (an external collaborator) and predict_batch / single      *)
(*                                                                          *)
(* The classifier scores a row from its normalized values alone; it rejects *)
(* an empty batch and a batch holding a text or a missing value.  A         *)
(* probability is a number of quarters, 0..4.                               *)

RECURSIVE SumRow(_, _, _)
SumRow(d, r, k) ==
    IF k > Len(d.cols) THEN 0 ELSE d.cols[k].vals[r].num \div 4 + SumRow(d, r, k + 1)

Scorable(d) ==
    /\ d.n > 0
    /\ \A k \in DOMAIN d.cols : \A r \in 1..d.n : d.cols[k].vals[r].kind = "num"

NoValues == [raised |-> TRUE, err |-> "ValueError", vals |-> <<>>]

\* self.model.predict_proba(df_processed)[:, 1]
predict_proba(a, d) ==
    IF ~Scorable(d) THEN NoValues
    ELSE [raised |-> FALSE, err |-> "",
          vals |-> [r \in 1..d.n |-> Num((a.bias + SumRow(d, r, 1)) % 5)]]

\* self.model.predict(df_processed): the class label, 0 or 1
predict(a, d) ==
    IF ~Scorable(d) THEN NoValues
    ELSE [raised |-> FALSE, err |-> "",
          vals |-> [r \in 1..d.n |->
                       IF (a.bias + SumRow(d, r, 1)) % 5 > 2
                       THEN Num(Whole(1)) ELSE Num(Whole(0))]]

s_prediction == <<"p","r","e","d","i","c","t","i","o","n">>

\* row identifiers looked up without regard to the case of the column name
RowIdsAnyCase(d) ==
    IF HasColumn(LowerColumns(d), s_id)
    THEN [name |-> s_id, dtype |-> Col(LowerColumns(d), s_id).dtype,
          vals |-> Col(LowerColumns(d), s_id).vals]
    ELSE [name |-> s_id, dtype |-> "int64", vals |-> [i \in 1..d.n |-> Num(Whole(i - 1))]]

\* df['id'].values if 'id' in df.columns else range(len(df))
RowIds(d) ==
    IF HasColumn(d, s_id)
    THEN [name |-> s_id, dtype |-> Col(d, s_id).dtype, vals |-> Col(d, s_id).vals]
    ELSE [name |-> s_id, dtype |-> "int64", vals |-> [i \in 1..d.n |-> Num(Whole(i - 1))]]

\* a result assembly that loses the last row
ResultFrameOffByOne(ids, predictions) ==
    IF Len(ids.vals) # Len(predictions) THEN Raise("ValueError")
    ELSE Ok([n |-> IF Len(predictions) = 0 THEN 0 ELSE Len(predictions) - 1,
             cols |-> <<[ids EXCEPT !.vals = SubSeq(ids.vals, 1, Len(predictions) - 1)],
                        [name |-> s_prediction, dtype |-> "float64",
                         vals |-> SubSeq(predictions, 1, Len(predictions) - 1)]>>])

\* pd.DataFrame({'id': ..., 'prediction': ...}): arrays of unequal length are refused
ResultFrame(ids, predictions) ==
    IF Len(ids.vals) # Len(predictions) THEN Raise("ValueError")
    ELSE Ok([n |-> Len(predictions),
             cols |-> <<ids, [name |-> s_prediction, dtype |-> "float64",
                              vals |-> predictions]>>])

\* the prediction branch of predict_batch
Infer(a, d) == IF a.has_predict_proba THEN predict_proba(a, d) ELSE predict(a, d)

\* the result of predict_batch from the classifier's answer
Tabulate(d, predictions) ==
    IF predictions.raised THEN Raise(predictions.err)
    ELSE ResultFrame(RowIds(d), predictions.vals)

\* predict_batch from the normalized batch on
Score(m, d, processed) ==
    IF processed.raised THEN processed ELSE Tabulate(d, Infer(m.obj, processed.df))

\* HeartAttackModel.predict_batch
predict_batch(m, d) == Score(m, d, preprocess_data(d))

NoValue == [raised |-> TRUE, err |-> "", value |-> NaN]

\* result_df['prediction'].iloc[0]
FirstPrediction(result_df) ==
    IF result_df.raised THEN [NoValue EXCEPT !.err = result_df.err]
    ELSE IF result_df.df.n = 0 THEN [NoValue EXCEPT !.err = "IndexError"]
    ELSE [raised |-> FALSE, err |-> "", value |-> Col(result_df.df, s_prediction).vals[1]]

\* a single-row path of its own, which hands the raw row to the classifier
predict_single_own_path(m, d) == FirstPrediction(Score(m, d, Ok(d)))

\* HeartAttackModel.predict_single
predict_single(m, d) == FirstPrediction(predict_batch(m, d))

---------------------------------------------------------------------------
(* Input batches                                                           *)

MaxRows == 3

FloatCells == {NaN, Num(0), Num(2), Num(4), Num(8)}

IntCells == {Num(Whole(0)), Num(Whole(1)), Num(Whole(2))}

\* the texts of a gender column: every key of the table in some casing, a text the
\* table lacks, a missing value
GenderCells == <<Str(s_male), Str(<<"F","E","M","A","L","E">>), Str(s_1_0), NaN,
                 Str(s_0_0), Str(<<"x">>), Str(s_1), Str(s_0),
                 Str(<<"M","a","l","e">>), Str(s_female)>>

\* textual gender columns: the texts taken in turn from a starting text, by a stride
GenderColumns(n) ==
    {[name |-> s_gender, dtype |-> "object",
      vals |-> [i \in 1..n |-> GenderCells[((k + (i - 1) * stride) % Len(GenderCells)) + 1]]] :
        k \in 0..(Len(GenderCells) - 1), stride \in 0..3}

ColumnsOf(name, dtype, cells, n) ==
    {[name |-> name, dtype |-> dtype, vals |-> v] : v \in [1..n -> cells]}

\* the feature column a batch varies
FeatureColumns(n) ==
    GenderColumns(n)
    \cup ColumnsOf(<<"G","e","n","d","e","r">>, "float64", FloatCells, n)
    \cup ColumnsOf(<<"D","i","a","b","e","t","e","s">>, "float64", FloatCells, n)
    \cup ColumnsOf(s_age, "float64", FloatCells, n)
    \cup ColumnsOf(s_smoking, "int64", IntCells, n)

IdCell(i)      == Num(Whole(9 - 2 * i))
UpperIdCell(i) == Num(Whole(20 + i))
IndexCell(i)   == Num(Whole(i - 1))
IncomeCell(i)  == IF i = 1 THEN NaN ELSE Num(2)
FemaleCell(i)  == Str(s_female)
MissingCell(i) == NaN

\* a column whose values are given row by row
FixedColumn(name, dtype, vals) == [name |-> name, dtype |-> dtype, vals |-> vals]

IdCells(n)      == [i \in 1..n |-> IdCell(i)]
UpperIdCells(n) == [i \in 1..n |-> UpperIdCell(i)]
IndexCells(n)   == [i \in 1..n |-> IndexCell(i)]
IncomeCells(n)  == [i \in 1..n |-> IncomeCell(i)]
FemaleCells(n)  == [i \in 1..n |-> FemaleCell(i)]
MissingCells(n) == [i \in 1..n |-> MissingCell(i)]

\* the columns a batch carries besides the feature column
ExtraColumns(n) ==
    { <<>>,
      << FixedColumn(s_id, "int64", IdCells(n)) >>,
      << FixedColumn(<<"U","n","n","a","m","e","d",":","_","0">>, "int64", IndexCells(n)),
         FixedColumn(<<"I","D">>, "int64", UpperIdCells(n)),
         FixedColumn(<<"I","n","c","o","m","e">>, "float64", IncomeCells(n)) >>,
      << FixedColumn(<<"I","D">>, "int64", UpperIdCells(n)),
         FixedColumn(s_id, "int64", IdCells(n)) >>,
      << FixedColumn(<<"G","E","N","D","E","R">>, "object", FemaleCells(n)) >>,
      << FixedColumn(<<"O","b","e","s","i","t","y">>, "float64", MissingCells(n)) >> }

\* the concrete batches of the specification's scenarios
ScenarioPatient ==
    [n |-> 1,
     cols |-> << [name |-> s_age, dtype |-> "int64", vals |-> <<Num(Whole(55))>>],
                 [name |-> <<"c","h","o","l","e","s","t","e","r","o","l">>,
                  dtype |-> "int64", vals |-> <<Num(Whole(240))>>],
                 [name |-> <<"h","e","a","r","t","_","r","a","t","e">>,
                  dtype |-> "int64", vals |-> <<Num(Whole(72))>>],
                 [name |-> s_gender, dtype |-> "object", vals |-> <<Str(s_male)>>],
                 [name |-> s_diabetes, dtype |-> "float64", vals |-> <<Num(Whole(1))>>] >>]

ScenarioDiabetes ==
    [n |-> 4,
     cols |-> << [name |-> s_diabetes, dtype |-> "float64",
                  vals |-> <<Num(Whole(1)), NaN, Num(Whole(0)), Num(Whole(1))>>] >>]

Frames ==
    {ScenarioPatient, ScenarioDiabetes}
    \cup UNION {
        {[n |-> n, cols |-> e] : e \in ExtraColumns(n)}
        \cup {[n |-> n, cols |-> e \o <<f>>] : e \in ExtraColumns(n), f \in FeatureColumns(n)}
      : n \in 0..MaxRows }

---------------------------------------------------------------------------
(* Artifacts                                                               *)

TrainedFeatures == <<s_age, s_gender, s_diabetes>>

\* an artifact that exists and deserializes, by its capabilities
Object(fni, steps, stages, imp, names_out, params, proba, bias) ==
    [exists |-> TRUE, deserializes |-> TRUE,
     type_name |-> IF steps THEN "Pipeline" ELSE "Classifier",
     has_feature_names_in |-> fni, feature_names |-> TrainedFeatures,
     has_named_steps |-> steps, stages |-> stages,
     classifier_has_importances |-> imp, preprocessor_has_names_out |-> names_out,
     has_get_params |-> params, has_predict_proba |-> proba, bias |-> bias]

Objects ==
    {Object(fni, FALSE, {}, FALSE, FALSE, params, proba, 0) :
        fni \in BOOLEAN, params \in BOOLEAN, proba \in BOOLEAN}
    \cup
    {Object(fni, TRUE, stages, imp, names_out, params, TRUE, 0) :
        fni \in BOOLEAN, params \in BOOLEAN,
        stages \in SUBSET {"classifier", "preprocessor"},
        imp \in BOOLEAN, names_out \in BOOLEAN}

Artifacts ==
    {NoObject, [NoObject EXCEPT !.exists = TRUE]}
    \cup {a \in Objects :
            /\ a.classifier_has_importances => "classifier" \in a.stages
            /\ a.preprocessor_has_names_out => "preprocessor" \in a.stages}

\* main.py's start: model = HeartAttackModel(MODEL_PATH), or None when that raises
Startup(a) == IF load_model(a).raised THEN NoModel ELSE load_model(a).handle

---------------------------------------------------------------------------
(* Responses and the temporary file                                        *)

EmptyFrame == [n |-> 0, cols |-> <<>>]

NoFile == [exists |-> FALSE, content |-> EmptyFrame]

Fraction(a, b) == [num |-> a, den |-> b]

NoStats ==
    [mean |-> Fraction(0, 0), min |-> 0, max |-> 0, std_squared |-> Fraction(0, 0),
     risk_count |-> 0, no_risk_count |-> 0]

NoResp ==
    [endpoint |-> "", status |-> 0, detail |-> "",
     model_loaded |-> FALSE, info |-> NoInfo,
     predictions |-> EmptyFrame, download_url |-> <<>>, statistics |-> NoStats,
     patient_id |-> NaN, prediction |-> NaN, risk_level |-> "", confidence |-> 0,
     file |-> EmptyFrame]

Response(endpoint, status, detail) ==
    [NoResp EXCEPT !.endpoint = endpoint, !.status = status, !.detail = detail]

\* HTTPException(status_code=503, detail="Модель не загружена")
NotLoaded(endpoint) == Response(endpoint, 503, "model not loaded")

\* an exception that leaves a handler: the framework answers 500
ServerError(endpoint, e) == Response(endpoint, 500, e)

RECURSIVE SumOf(_, _)
SumOf(vals, k) == IF k > Len(vals) THEN 0 ELSE vals[k].num + SumOf(vals, k + 1)

RECURSIVE SumSquares(_, _)
SumSquares(vals, k) ==
    IF k > Len(vals) THEN 0 ELSE vals[k].num * vals[k].num + SumSquares(vals, k + 1)

MinOf(vals) == CHOOSE v \in {vals[i].num : i \in DOMAIN vals} :
                   \A i \in DOMAIN vals : v <= vals[i].num

MaxOf(vals) == CHOOSE v \in {vals[i].num : i \in DOMAIN vals} :
                   \A i \in DOMAIN vals : v >= vals[i].num

\* pandas' Series.std(): ddof=1, the sum of squared deviations over N - 1 (NaN, a
\* fraction over 0, for one value).  The square is kept, as an exact fraction of
\* squared quarters: sum((x - mean)^2) = (N * sum(x^2) - sum(x)^2) / N.
SeriesStdSquared(vals) ==
    LET cnt == Len(vals)
    IN  Fraction(cnt * SumSquares(vals, 1) - SumOf(vals, 1) * SumOf(vals, 1),
                 cnt * (cnt - 1))

\* numpy's np.std(): ddof=0, the sum of squared deviations over N
NumpyStdSquared(vals) ==
    LET cnt == Len(vals)
    IN  Fraction(cnt * SumSquares(vals, 1) - SumOf(vals, 1) * SumOf(vals, 1),
                 cnt * cnt)

\* the statistics of predict_from_csv's response (0.5 is 2 quarters)
Statistics(vals) ==
    [mean |-> Fraction(SumOf(vals, 1), Len(vals)),
     min |-> MinOf(vals),
     max |-> MaxOf(vals),
     std_squared |-> SeriesStdSquared(vals),
     risk_count |-> Cardinality({i \in DOMAIN vals : vals[i].num > 2}),
     no_risk_count |-> Cardinality({i \in DOMAIN vals : vals[i].num <= 2})]

\* utils.calculate_statistics: mean, std, min and max of its record
calculate_statistics(vals) ==
    [mean |-> Fraction(SumOf(vals, 1), Len(vals)),
     std_squared |-> NumpyStdSquared(vals),
     min |-> MinOf(vals),
     max |-> MaxOf(vals)]

---------------------------------------------------------------------------
(* The handlers of main.py, as the response each gives                     *)

\* GET /
root == Response("/", 200, "Heart Attack Prediction API")

\* the body of a handler that reports get_model_info()
InfoResponse(endpoint, detail, got) ==
    IF got.raised THEN ServerError(endpoint, got.err)
    ELSE [Response(endpoint, 200, detail) EXCEPT !.model_loaded = TRUE, !.info = got.info]

\* GET /health
health_check(m) ==
    IF ~m.loaded THEN Response("/health", 200, "healthy")
    ELSE InfoResponse("/health", "healthy", get_model_info(m))

\* GET /model/info
model_info(m) ==
    IF ~m.loaded THEN NotLoaded("/model/info")
    ELSE InfoResponse("/model/info", "", get_model_info(m))

s_csv == <<".","c","s","v">>

\* str.endswith
EndsWith(s, suffix) ==
    /\ Len(s) >= Len(suffix)
    /\ SubSeq(s, Len(s) - Len(suffix) + 1, Len(s)) = suffix

s_temp_predictions_csv ==
    <<"t","e","m","p","_","p","r","e","d","i","c","t","i","o","n","s",".","c","s","v">>

\* f"/download/{output_path}"
DownloadUrl(path) == <<"/","d","o","w","n","l","o","a","d","/">> \o path

\* the response of predict_from_csv once predict_batch has answered
CsvResponse(predictions_df) ==
    IF predictions_df.raised THEN ServerError("/predict/csv", predictions_df.err)
    ELSE [Response("/predict/csv", 200, "") EXCEPT
             !.predictions = predictions_df.df,
             !.download_url = DownloadUrl(s_temp_predictions_csv),
             !.statistics = Statistics(Col(predictions_df.df, s_prediction).vals)]

\* POST /predict/csv; decodes tells whether the upload reads as UTF-8 delimited text,
\* d is then the decoded batch
predict_from_csv(m, filename, decodes, d) ==
    IF ~m.loaded THEN NotLoaded("/predict/csv")
    ELSE IF ~EndsWith(filename, s_csv) THEN Response("/predict/csv", 400, "not a CSV file")
    ELSE IF ~decodes THEN ServerError("/predict/csv", "ParserError")
    ELSE CsvResponse(predict_batch(m, d))

\* predictions_df.to_csv(output_path), reached when predict_batch returned
WriteCsv(predictions_df, file) ==
    IF predictions_df.raised THEN file
    ELSE [exists |-> TRUE, content |-> predictions_df.df]

\* temp_predictions.csv after predict_from_csv
FileAfterCsv(m, filename, decodes, d, file) ==
    IF m.loaded /\ EndsWith(filename, s_csv) /\ decodes
    THEN WriteCsv(predict_batch(m, d), file)
    ELSE file

\* whether a call of predict_batch by a handler reaches the classifier
Invokes(m, d) == m.loaded /\ ~preprocess_data(d).raised

\* GET /download/{filename}
download_file(filename, file) ==
    IF filename # s_temp_predictions_csv THEN Response("/download", 404, "not found")
    ELSE IF ~file.exists THEN Response("/download", 404, "not found")
    ELSE [Response("/download", 200, "") EXCEPT !.file = file.content]

s_unknown == <<"u","n","k","n","o","w","n">>

\* data.get('id', 'unknown'), data being the one row of d
PatientId(d) == IF HasColumn(d, s_id) THEN Col(d, s_id).vals[1] ELSE Str(s_unknown)

\* the response of predict_single once model.predict_single has answered
SingleResponse(d, prediction) ==
    IF prediction.raised THEN Response("/predict/single", 400, prediction.err)
    ELSE [Response("/predict/single", 200, "") EXCEPT
             !.patient_id = PatientId(d),
             !.prediction = prediction.value,
             !.risk_level = IF prediction.value.num > 2 THEN "high" ELSE "low",
             !.confidence = 2 * Abs(prediction.value.num - 2)]

\* a handler whose model check sits inside the try block, so that its 503 is caught
\* and turned into a 400
predict_single_endpoint_check_in_try(m, d) ==
    IF ~m.loaded THEN Response("/predict/single", 400, "model not loaded")
    ELSE SingleResponse(d, predict_single(m, d))

\* POST /predict/single; d is pd.DataFrame([data])
predict_single_endpoint(m, d) ==
    IF ~m.loaded THEN NotLoaded("/predict/single")
    ELSE SingleResponse(d, predict_single(m, d))

---------------------------------------------------------------------------
(* Requests                                                                *)

MaxCalls == 2

UploadNames == { <<"d">> \o s_csv, <<"d",".","t","x","t">> }

DownloadNames == { s_temp_predictions_csv, <<"d">> \o s_csv }

\* the uploads of the service: the scenario patient, two rows told apart by age with
\* an id column, a batch with an all-missing obesity column, a batch with a text column
UploadFrames ==
    { ScenarioPatient,
      [n |-> 2,
       cols |-> << FixedColumn(s_id, "int64", IdCells(2)),
                   [name |-> s_age, dtype |-> "float64",
                    vals |-> <<Num(Whole(3)), Num(Whole(1))>>] >>],
      [n |-> 2,
       cols |-> << [name |-> s_age, dtype |-> "float64",
                    vals |-> <<Num(Whole(2)), NaN>>] >>],
      [n |-> 1,
       cols |-> << FixedColumn(s_obesity, "float64", MissingCells(1)) >>],
      [n |-> 1,
       cols |-> << FixedColumn(<<"c","i","t","y">>, "object", FemaleCells(1)) >>] }

\* an upload: bytes that do not decode, or a decoded batch
Uploads ==
    {[decodes |-> FALSE, df |-> EmptyFrame]}
    \cup {[decodes |-> TRUE, df |-> d] : d \in UploadFrames}

\* the bodies of /predict/single as pd.DataFrame([data]): a text id, no id, a missing
\* gender (None makes an object column)
SingleFrames ==
    { [n |-> 1,
       cols |-> <<[name |-> s_id, dtype |-> "object", vals |-> <<Str(<<"t","1">>)>>]>>
                \o ScenarioPatient.cols],
      ScenarioPatient,
      [n |-> 1,
       cols |-> << [name |-> s_age, dtype |-> "int64", vals |-> <<Num(Whole(61))>>],
                   [name |-> s_gender, dtype |-> "object", vals |-> <<NaN>>] >>],
      [n |-> 1,
       cols |-> << [name |-> <<"n","a","m","e">>, dtype |-> "object",
                    vals |-> <<Str(<<"x">>)>>] >>] }

NotCalled == [op |-> "none", res |-> Raise("")]

\* no client of the service is followed
NoClients == <<>>

---------------------------------------------------------------------------
(* The service                                                             *)

Init ==
    /\ artifact \in Artifacts
    /\ model = Startup(artifact)
    /\ calls = 0
    /\ tempFile = NoFile
    /\ resp = NoResp
    /\ df = EmptyFrame
    /\ out = NotCalled
    /\ clients = NoClients

Root ==
    /\ resp' = root
    /\ UNCHANGED <<artifact, model, calls, tempFile, df, out, clients>>

HealthCheck ==
    /\ resp' = health_check(model)
    /\ UNCHANGED <<artifact, model, calls, tempFile, df, out, clients>>

ModelInfo ==
    /\ resp' = model_info(model)
    /\ UNCHANGED <<artifact, model, calls, tempFile, df, out, clients>>

PredictFromCsv ==
    \E filename \in UploadNames, upload \in Uploads :
        /\ calls < MaxCalls
        /\ resp' = predict_from_csv(model, filename, upload.decodes, upload.df)
        /\ df' = IF model.loaded /\ EndsWith(filename, s_csv) /\ upload.decodes
                 THEN upload.df ELSE df
        /\ calls' = IF EndsWith(filename, s_csv) /\ upload.decodes
                         /\ Invokes(model, upload.df)
                      THEN calls + 1 ELSE calls
        /\ tempFile' = FileAfterCsv(model, filename, upload.decodes, upload.df, tempFile)
        /\ UNCHANGED <<artifact, model, out, clients>>

DownloadFile ==
    \E filename \in DownloadNames :
        /\ resp' = download_file(filename, tempFile)
        /\ UNCHANGED <<artifact, model, calls, tempFile, df, out, clients>>

PredictSingle ==
    \E d \in SingleFrames :
        /\ calls < MaxCalls
        /\ resp' = predict_single_endpoint(model, d)
        /\ df' = IF model.loaded THEN d ELSE df
        /\ calls' = IF Invokes(model, d) THEN calls + 1 ELSE calls
        /\ UNCHANGED <<artifact, model, tempFile, out, clients>>

Next ==
    \/ Root
    \/ HealthCheck
    \/ ModelInfo
    \/ PredictFromCsv
    \/ DownloadFile
    \/ PredictSingle

Spec == Init /\ [][Next]_vars

---------------------------------------------------------------------------
(* The normalizer on its own: one call of preprocess_data per batch        *)

Idle ==
    /\ calls = 0
    /\ tempFile = NoFile
    /\ resp = NoResp
    /\ clients = NoClients

InitNorm ==
    /\ artifact = NoObject
    /\ model = NoModel
    /\ Idle
    /\ df \in Frames
    /\ out = NotCalled

Preprocess ==
    /\ out.op = "none"
    /\ out' = [op |-> "preprocess_data", res |-> preprocess_data(df)]
    /\ UNCHANGED <<artifact, model, calls, tempFile, resp, df, clients>>

NextNorm == Preprocess

SpecNorm == InitNorm /\ [][NextNorm]_vars

---------------------------------------------------------------------------
(* HeartAttackModel on its own: one call of predict_batch or predict_single *)
(* per batch, on a wrapper that loaded                                      *)

BatchObjects ==
    {Object(TRUE, FALSE, {}, FALSE, FALSE, FALSE, proba, bias) :
        proba \in BOOLEAN, bias \in {1}}

InitBatch ==
    /\ artifact \in BatchObjects
    /\ model = Startup(artifact)
    /\ Idle
    /\ df \in Frames
    /\ out = NotCalled

CallPredictBatch ==
    /\ out.op = "none"
    /\ out' = [op |-> "predict_batch", res |-> predict_batch(model, df)]
    /\ UNCHANGED <<artifact, model, calls, tempFile, resp, df, clients>>

CallPredictSingle ==
    /\ out.op = "none"
    /\ out' = [op |-> "predict_single", res |-> predict_single(model, df)]
    /\ UNCHANGED <<artifact, model, calls, tempFile, resp, df, clients>>

NextBatch == CallPredictBatch \/ CallPredictSingle

SpecBatch == InitBatch /\ [][NextBatch]_vars

---------------------------------------------------------------------------
(* Concurrent clients: each runs HeartAttackAPIClient.predict_from_csv once, *)
(* a POST /predict/csv followed, when it answered 200, by a GET of the       *)
(* download_url of that answer.  A handler runs without yielding from its    *)
(* first statement after `await file.read()`, so a request is one step; the  *)
(* requests of different clients interleave freely.                          *)

MaxClients == 2

Clients == 1..MaxClients

\* a client before its POST
NewClient == [pc |-> "start", result |-> NoResp, download |-> NoResp]

\* the route /download/{filename} applied to a download_url
UrlFilename(url) == SubSeq(url, Len(DownloadUrl(<<>>)) + 1, Len(url))

\* the client after the answer to its POST: it goes on to the download on a 200 only
AfterPost(c, result) ==
    [c EXCEPT !.pc = IF result.status = 200 THEN "posted" ELSE "done",
              !.result = result]

\* the client after the answer to its GET
AfterDownload(c, download) == [c EXCEPT !.pc = "done", !.download = download]

InitClients ==
    /\ artifact \in BatchObjects
    /\ model = Startup(artifact)
    /\ calls = 0
    /\ tempFile = NoFile
    /\ resp = NoResp
    /\ df = EmptyFrame
    /\ out = NotCalled
    /\ clients = [c \in Clients |-> NewClient]

ClientPost ==
    \E c \in Clients, filename \in UploadNames, upload \in Uploads :
        /\ clients[c].pc = "start"
        /\ resp' = predict_from_csv(model, filename, upload.decodes, upload.df)
        /\ clients' = [clients EXCEPT ![c] = AfterPost(clients[c], resp')]
        /\ df' = IF model.loaded /\ EndsWith(filename, s_csv) /\ upload.decodes
                 THEN upload.df ELSE df
        /\ calls' = IF EndsWith(filename, s_csv) /\ upload.decodes
                         /\ Invokes(model, upload.df)
                      THEN calls + 1 ELSE calls
        /\ tempFile' = FileAfterCsv(model, filename, upload.decodes, upload.df, tempFile)
        /\ UNCHANGED <<artifact, model, out>>

ClientDownload ==
    \E c \in Clients :
        /\ clients[c].pc = "posted"
        /\ resp' = download_file(UrlFilename(clients[c].result.download_url), tempFile)
        /\ clients' = [clients EXCEPT ![c] = AfterDownload(clients[c], resp')]
        /\ UNCHANGED <<artifact, model, calls, tempFile, df, out>>

NextClients == ClientPost \/ ClientDownload

SpecClients == InitClients /\ [][NextClients]_vars

---------------------------------------------------------------------------
(* Properties of preprocess_data                                           *)

Returned == out.op = "preprocess_data" /\ ~out.res.raised

LoweredNames(d) == [i \in DOMAIN d.cols |-> Lower(d.cols[i].name)]

PrunedNames == {s_unnamed0, s_id, s_income}

\* C6: the output of preprocess_data has no column whose lower-cased name is
\* unnamed:_0, id or income, whatever the casing of the raw names; a batch that lacks
\* them raises no KeyError; every other input column is in the output, in input order,
\* under its lower-cased name.
C6_PrunedColumnsAbsent ==
    out.op = "preprocess_data" =>
        /\ out.res.raised => out.res.err # "KeyError"
        /\ ~out.res.raised =>
            /\ \A i \in DOMAIN out.res.df.cols :
                   Lower(out.res.df.cols[i].name) \notin PrunedNames
            /\ [i \in DOMAIN out.res.df.cols |-> out.res.df.cols[i].name]
                   = SelectSeq(LoweredNames(df), LAMBDA x : x \notin PrunedNames)

\* a batch with Unnamed:_0, ID and Income (mixed case) and a Diabetes column was
\* normalized: only diabetes is left
C6_Witness ==
    /\ Returned
    /\ df.n = 2
    /\ LoweredNames(df) = <<s_unnamed0, s_id, s_income, s_diabetes>>
    /\ df.cols[2].name = <<"I","D">>
    /\ [i \in DOMAIN out.res.df.cols |-> out.res.df.cols[i].name] = <<s_diabetes>>

\* the table of the gender encoding, with 0 for everything else
ExpectedGender(c) ==
    IF c.kind # "str" THEN 0
    ELSE IF Lower(c.str) \in {s_male, s_1_0, s_1} THEN 0
    ELSE IF Lower(c.str) \in {s_female, s_0_0, s_0} THEN 1
    ELSE 0

\* C7: a textual gender column comes out as an integer column whose value in each row
\* is given by the table male->0, female->1, "1.0"->0, "0.0"->1, "1"->0, "0"->1 applied
\* case-insensitively, and is 0 for a value the table lacks and for a missing value.
C7_GenderEncoding ==
    Returned =>
        \A i \in DOMAIN df.cols :
            (Lower(df.cols[i].name) = s_gender /\ df.cols[i].dtype = "object") =>
                LET o == Col(out.res.df, s_gender)
                IN  /\ o.dtype = "int64"
                    /\ DOMAIN o.vals = 1..df.n
                    /\ \A r \in 1..df.n :
                        /\ o.vals[r] = Num(Whole(ExpectedGender(df.cols[i].vals[r])))
                        /\ o.vals[r] \in {Num(Whole(0)), Num(Whole(1))}

\* a textual gender column <<"FEMALE", missing, "x">> came out as <<1, 0, 0>>
C7_Witness ==
    /\ Returned
    /\ df.n = 3
    /\ \E i \in DOMAIN df.cols :
        /\ df.cols[i].name = s_gender
        /\ df.cols[i].dtype = "object"
        /\ df.cols[i].vals = <<Str(<<"F","E","M","A","L","E">>), NaN, Str(<<"x">>)>>
    /\ Col(out.res.df, s_gender).vals = <<Num(Whole(1)), Num(Whole(0)), Num(Whole(0))>>

\* C8: when preprocess_data returns, a binary field that came in as a floating-point
\* column is an integer column in which every value is the input value, or the median
\* of the column's non-missing values where the input was missing, rounded to the
\* nearest integer (<<1.0, NaN, 0.0, 1.0>> gives <<1, 1, 0, 1>>); a binary field that
\* came in integer-typed is unchanged, whatever its values.
C8_BinaryCoercion ==
    Returned =>
        \A i \in DOMAIN df.cols :
            Lower(df.cols[i].name) \in Range(binary_cols) =>
                LET v == df.cols[i].vals
                    o == Col(out.res.df, Lower(df.cols[i].name))
                IN  /\ df.cols[i].dtype = "float64" =>
                        /\ o.dtype = "int64"
                        /\ DOMAIN o.vals = 1..df.n
                        /\ \A r \in 1..df.n :
                            LET filled == IF IsNull(v[r]) THEN Median(v) ELSE v[r]
                            IN  /\ o.vals[r].kind = "num"
                                /\ IsWhole(o.vals[r].num)
                                /\ filled.kind = "num"
                                /\ Abs(o.vals[r].num - filled.num) <= 2
                                /\ o.vals[r].num = Round(filled.num)
                        /\ v = <<Num(Whole(1)), NaN, Num(Whole(0)), Num(Whole(1))>> =>
                            o.vals = <<Num(Whole(1)), Num(Whole(1)), Num(Whole(0)),
                                       Num(Whole(1))>>
                    /\ df.cols[i].dtype = "int64" =>
                        o = [df.cols[i] EXCEPT !.name = Lower(df.cols[i].name)]

\* the batch with diabetes <<1.0, NaN, 0.0, 1.0>> was normalized to <<1, 1, 0, 1>>
C8_Witness ==
    /\ Returned
    /\ df = ScenarioDiabetes
    /\ Col(out.res.df, s_diabetes).dtype = "int64"
    /\ Col(out.res.df, s_diabetes).vals
           = <<Num(Whole(1)), Num(Whole(1)), Num(Whole(0)), Num(Whole(1))>>

NoRepeatedLabel(d) ==
    \A i, j \in DOMAIN d.cols :
        Lower(d.cols[i].name) = Lower(d.cols[j].name) => i = j

\* C9: on every batch (here: every batch whose lower-cased column names are distinct)
\* preprocess_data returns without raising, and its output has no missing value in any
\* numeric column.
C9_NoMissingNumeric ==
    (out.op = "preprocess_data" /\ NoRepeatedLabel(df)) =>
        /\ ~out.res.raised
        /\ \A i \in DOMAIN out.res.df.cols :
               IsNumericDtype(out.res.df.cols[i].dtype) =>
                   \A r \in DOMAIN out.res.df.cols[i].vals :
                       ~IsNull(out.res.df.cols[i].vals[r])

---------------------------------------------------------------------------
(* Properties of predict_batch and predict_single                          *)

BatchReturned == out.op = "predict_batch" /\ ~out.res.raised

ColumnNames(d) == [i \in DOMAIN d.cols |-> d.cols[i].name]

\* C1: when predict_batch returns, its result has the columns id and prediction and
\* exactly one row per input row, in input order: row r carries the classifier's
\* answer for row r of the normalized batch.
C1_OneRowPerInputRow ==
    BatchReturned =>
        /\ out.res.df.n = df.n
        /\ ColumnNames(out.res.df) = <<s_id, s_prediction>>
        /\ \A k \in DOMAIN out.res.df.cols : DOMAIN out.res.df.cols[k].vals = 1..df.n
        /\ \A r \in 1..df.n :
               out.res.df.cols[2].vals[r]
                   = Infer(model.obj, preprocess_data(df).df).vals[r]

\* a batch of three rows with an id column was scored through predict, the path of a
\* classifier without predict_proba
C1_Witness ==
    /\ BatchReturned
    /\ df.n = 3
    /\ HasColumn(df, s_id)
    /\ ~model.obj.has_predict_proba
    /\ out.res.df.n = 3

\* C5: in the result of predict_batch the identifier of row r is the value of the raw
\* input's id column at row r when the raw input has a column named id, and the
\* zero-based index r otherwise.
C5_RowIdentifiers ==
    BatchReturned =>
        \A r \in 1..df.n :
            out.res.df.cols[1].vals[r] =
                IF \E i \in DOMAIN df.cols : df.cols[i].name = s_id
                THEN df.cols[CHOOSE i \in DOMAIN df.cols : df.cols[i].name = s_id].vals[r]
                ELSE Num(Whole(r - 1))

\* a batch of three rows with the columns ID and id was scored: the identifiers are
\* those of the column id, 7, 5 and 3
C5_Witness ==
    /\ BatchReturned
    /\ df.n = 3
    /\ Len(df.cols) >= 2
    /\ ColumnNames(df)[1] = <<"I","D">>
    /\ ColumnNames(df)[2] = s_id
    /\ out.res.df.cols[1].vals = <<Num(Whole(7)), Num(Whole(5)), Num(Whole(3))>>

\* C2: predict_single on a batch gives the prediction of the first row of predict_batch
\* on the same batch, and raises when predict_batch raises or has no row.
C2_SingleIsFirstOfBatch ==
    out.op = "predict_single" =>
        IF predict_batch(model, df).raised \/ df.n = 0
        THEN out.res.raised
        ELSE /\ ~out.res.raised
             /\ out.res.value = predict_batch(model, df).df.cols[2].vals[1]
             /\ out.res.value
                    = Infer(model.obj, preprocess_data(df).df).vals[1]

\* predict_single answered for the one-row batch whose gender is the text "FEMALE"
C2_Witness ==
    /\ out.op = "predict_single"
    /\ ~out.res.raised
    /\ df.n = 1
    /\ \E i \in DOMAIN df.cols :
        /\ df.cols[i].name = s_gender
        /\ df.cols[i].vals = <<Str(<<"F","E","M","A","L","E">>)>>

---------------------------------------------------------------------------
(* Properties of the service                                               *)

\* C3: when loading the artifact raised at startup (always so for a missing file and
\* for one that does not deserialize), the handle is unset in every state that
\* follows, the classifier is never invoked, /model/info, /predict/csv and
\* /predict/single answer 503 "model not loaded", /health answers 200 with
\* model_loaded false, and no request ends in a server error.
C3_NotLoadedStaysNotLoaded ==
    /\ (~artifact.exists \/ ~artifact.deserializes) => load_model(artifact).raised
    /\ load_model(artifact).raised =>
        /\ ~model.loaded
        /\ calls = 0
        /\ tempFile = NoFile
        /\ resp.endpoint \in {"/model/info", "/predict/csv", "/predict/single"} =>
               (resp.status = 503 /\ resp.detail = "model not loaded")
        /\ resp.endpoint = "/health" => (resp.status = 200 /\ ~resp.model_loaded)
        /\ resp.status # 500

\* the artifact is missing and /predict/single has just answered 503
C3_Witness ==
    /\ ~artifact.exists
    /\ ~model.loaded
    /\ resp.endpoint = "/predict/single"
    /\ resp.status = 503

\* C4: an artifact that exists and deserializes loads whatever optional capabilities
\* it lacks, and /health and /model/info then answer with the metadata record.
C4_LoadToleratesMissingCapabilities ==
    (artifact.exists /\ artifact.deserializes) =>
        /\ model.loaded
        /\ resp.endpoint \in {"/health", "/model/info"} => resp.status = 200

\* C10: the statistics of a /predict/csv response carry the population standard
\* deviation of the predictions (squared: the sum of squared deviations over N, so 0
\* for one row), risk_count = the number of predictions above 0.5 and no_risk_count =
\* the number of the others, the two adding up to the number of predictions.
C10_PopulationStd ==
    (resp.endpoint = "/predict/csv" /\ resp.status = 200) =>
        LET vals == resp.predictions.cols[2].vals
            cnt == Len(vals)
            deviations == cnt * SumSquares(vals, 1) - SumOf(vals, 1) * SumOf(vals, 1)
            std2 == resp.statistics.std_squared
        IN  /\ std2.den # 0
            /\ std2.num * cnt * cnt = deviations * std2.den
            /\ cnt = 1 => std2.num = 0
            /\ resp.statistics.risk_count
                   = Cardinality({i \in DOMAIN vals : vals[i].num > 2})
            /\ resp.statistics.no_risk_count
                   = Cardinality({i \in DOMAIN vals : vals[i].num <= 2})
            /\ resp.statistics.risk_count + resp.statistics.no_risk_count = cnt

---------------------------------------------------------------------------
(* Properties of concurrent clients                                        *)

\* C11: under every interleaving of the clients' requests, a client whose
\* /predict/csv answered 200 and that has followed the download_url of that answer
\* received, with status 200, exactly the predictions of that answer: the rows
\* computed for its own batch, never those of another client's request.
C11_OwnPredictions ==
    \A c \in Clients :
        (clients[c].pc = "done" /\ clients[c].result.status = 200) =>
            /\ clients[c].download.status = 200
            /\ clients[c].download.file = clients[c].result.predictions

====
